---- MODULE Spec2Model ----
(***************************************************************************)
(* The application dispatch engine of hh-applicant-tool                    *)
(* (operations/apply_similar.py): Operation.run, _apply_similar,           *)
(* _apply_resume, _get_similar_vacancies, _parse_excluded_terms,           *)
(* _is_excluded and _get_application_messages.                             *)
(*                                                                         *)
(* The collaborators (api_client.get / post, tool.get_resumes, get_me,     *)
(* openai_chat.send_message, random.choice) are the environment: what they *)
(* return or raise is drawn with \E in the action that calls them.         *)
(*                                                                         *)
(* Text is a sequence of one-character strings, so that str.lower and the  *)
(* substring test `term in text` are computed, not assumed.                *)
(***************************************************************************)
EXTENDS Naturals, Sequences, FiniteSets

VARIABLES
    \* ---- Operation attributes set by run() (lines 79-93), fixed afterwards
    dry_run,              \* self.dry_run
    force_message,        \* self.force_message
    openai_chat,          \* TRUE iff self.openai_chat is a chat object (args.use_ai)
    total_pages,          \* self.total_pages
    excluded_terms,       \* self.excluded_terms, the parsed list
    resume_id,            \* self.resume_id: <<>> for None, <<id>> otherwise
    application_messages, \* self.application_messages, the template pool
    \* ---- the upstream's answer to tool.get_resumes()
    all_resumes,
    \* ---- control state of _apply_similar / _apply_resume
    pc,                   \* "start"; "loop": line 112; "for": line 139; "gen": in
                          \* the generator; "body": line 140; "done"; "crashed"
                          \* (an exception left run()); "text": no run, SpecText
    resumes,              \* the kept (filtered) list, line 99
    ri,                   \* position of the current resume in resumes (0: none yet)
    do_apply,             \* the local flag of _apply_resume, line 137
    vacancy,              \* the loop variable of line 139
    \* ---- the generator _get_similar_vacancies (lines 210-216)
    page,                 \* the next value of `page` in range(total_pages)
    items,                \* how many items of the current page are not yet yielded
    \* ---- what the last step did, and history
    step,                 \* the calls, log entries and exception of the last step
    limited,              \* ids of the resumes for which LimitExceeded was caught
    twin,                 \* a dry run fed the same inputs as this run (SpecPair)
    fx                    \* input and output of the last pure-function application

cfgvars == <<dry_run, force_message, openai_chat, total_pages, excluded_terms,
             resume_id, application_messages, all_resumes>>
ctlvars == <<pc, resumes, ri, do_apply, vacancy, page, items>>
vars == <<cfgvars, ctlvars, step, limited, twin, fx>>

-----------------------------------------------------------------------------
(* Bounds of the model *)

\* at most this many resumes in the answer of get_resumes
MaxResumes == 2
\* args.total_pages is drawn from 0..MaxPages
MaxPages == 2
\* args.per_page: a page holds at most this many items
PerPage == 2
\* length of a vacancy text field and of the excluded-terms string (SpecText)
MaxLen == 2

-----------------------------------------------------------------------------
(* Text *)

Range(s) == {s[i] : i \in 1..Len(s)}

Letters == {"a", "b", "A", "B"}
Chars == Letters \cup {" ", ","}

\* str.lower(), one character
LowerChar(c) ==
    CASE c = "A" -> "a"
      [] c = "B" -> "b"
      [] OTHER -> c

\* str.lower()
Lower(s) == [i \in 1..Len(s) |-> LowerChar(s[i])]

\* Python's `term in text` for two strings: term occurs as a contiguous slice
\* (the empty string occurs in every string)
Contains(text, term) ==
    \E i \in 0..Len(text) :
        /\ i + Len(term) <= Len(text)
        /\ \A k \in 1..Len(term) : text[i + k] = term[k]

\* " ".join([a, b, c])
JoinSpace3(a, b, c) == a \o <<" ">> \o b \o <<" ">> \o c

\* all strings over S of length at most n
StringsUpTo(S, n) == UNION {[1..k -> S] : k \in 0..n}

-----------------------------------------------------------------------------
(* _parse_excluded_terms, lines 218-222 *)

\* str.split(","): the pieces between the commas, empty pieces kept
RECURSIVE SplitComma(_)
SplitComma(s) ==
    IF \A i \in 1..Len(s) : s[i] # ","
    THEN <<s>>
    ELSE LET i == CHOOSE j \in 1..Len(s) :
                      s[j] = "," /\ \A k \in 1..(j - 1) : s[k] # ","
         IN <<SubSeq(s, 1, i - 1)>> \o SplitComma(SubSeq(s, i + 1, Len(s)))

\* str.strip(): leading and trailing whitespace removed
RECURSIVE Strip(_)
Strip(s) ==
    IF s = <<>> THEN s
    ELSE IF Head(s) = " " THEN Strip(Tail(s))
    ELSE IF s[Len(s)] = " " THEN Strip(SubSeq(s, 1, Len(s) - 1))
    ELSE s

\* [x.strip().lower() for x in pieces if x.strip()]
RECURSIVE KeepTerms(_)
KeepTerms(pieces) ==
    IF pieces = <<>> THEN <<>>
    ELSE IF Strip(Head(pieces)) # <<>>
    THEN <<Lower(Strip(Head(pieces)))>> \o KeepTerms(Tail(pieces))
    ELSE KeepTerms(Tail(pieces))

\* line 222 without `if x.strip()`
_parse_excluded_terms_KeepEmpty(arg) ==
    IF arg = <<>> THEN <<>>
    ELSE [i \in 1..Len(SplitComma(arg)) |-> Lower(Strip(SplitComma(arg)[i]))]

\* None and "" are both the empty sequence here: `if not excluded_terms`
_parse_excluded_terms(arg) ==
    IF arg = <<>> THEN <<>> ELSE KeepTerms(SplitComma(arg))

-----------------------------------------------------------------------------
(* _is_excluded, lines 224-233 *)

\* lines 226-232 without .lower()
VacancyText_NotLowered(v) ==
    JoinSpace3(v.name, v.requirement, v.responsibility)

\* the text the terms are searched in, lines 226-232
VacancyText(v) ==
    Lower(JoinSpace3(v.name, v.requirement, v.responsibility))

\* any(term in text for term in self.excluded_terms)
_is_excluded(v) ==
    \E n \in 1..Len(excluded_terms) :
        Contains(VacancyText(v), excluded_terms[n])

-----------------------------------------------------------------------------
(* _get_application_messages, lines 235-241.  A template is the set of the  *)
(* %(name)s placeholders it references.                                     *)

\* the built-in pool, lines 237-240
DefaultMessages == << {"first_name", "vacancy_name"}, {"vacancy_name"} >>

\* pools read from a message file: one that renders, one with an unknown
\* key, and the pool of a file with no non-blank line (line 241)
FileMessages == { << {"first_name", "resume_title"}, {} >>,
                  << {"first_name"}, {"company"} >>,
                  << >> }

_get_application_messages(path) ==
    IF path = <<>> THEN DefaultMessages ELSE path[1]

\* the keys of the dict built at lines 129-135
placeholders == {"first_name", "last_name", "email", "phone", "resume_title"}

-----------------------------------------------------------------------------
(* Observations: collaborator calls and log records *)

Call(op, rid, arg, message) ==
    [op |-> op, resume |-> rid, arg |-> arg, message |-> message]

Log(level, event, rid, vid) ==
    [level |-> level, event |-> event, resume |-> rid, vacancy |-> vid]

Ops(calls) == {calls[i].op : i \in 1..Len(calls)}

NoVacancy ==
    [id |-> 0, name |-> <<>>, requirement |-> <<>>, responsibility |-> <<>>,
     archived |-> FALSE, has_test |-> FALSE, relations |-> <<>>,
     response_letter_required |-> FALSE]

\* what the upstream may put into one vacancy of the similar_vacancies answer
VacancyFields ==
    {f \in [name : {<<"A">>, <<"b">>},
            requirement : {<<>>},
            responsibility : {<<>>},
            archived : BOOLEAN, has_test : BOOLEAN,
            relations : {<<>>, <<"other">>, <<"other", "got_rejection">>},
            response_letter_required : BOOLEAN]
        : ~(f.archived /\ f.has_test)}

WithId(f, vid) ==
    [id |-> vid, name |-> f.name, requirement |-> f.requirement,
     responsibility |-> f.responsibility, archived |-> f.archived,
     has_test |-> f.has_test, relations |-> f.relations,
     response_letter_required |-> f.response_letter_required]

-----------------------------------------------------------------------------
(* The body of the loop of _apply_resume, lines 140-202 *)

\* line 144 without the has_test operand
SkipArchivedOrTest_ArchivedOnly(v) == v.archived

\* line 144
SkipArchivedOrTest(v) == v.archived \/ v.has_test

\* line 149 looking at the first relation only
RelationLogs_FirstOnly(rid, v) ==
    IF Head(v.relations) = "got_rejection"
    THEN <<Log("warning", "got_rejection", rid, v.id)>>
    ELSE <<>>

\* lines 149-153: the warning of the relation stage
RelationLogs(rid, v) ==
    IF "got_rejection" \in Range(v.relations)
    THEN <<Log("warning", "got_rejection", rid, v.id)>>
    ELSE <<>>

\* line 169 without the vacancy's own requirement
NeedsMessage_ForcedOnly(v) == force_message

\* line 169
NeedsMessage(v) == force_message \/ v.response_letter_required

\* line 170: which strategy composes the message
UsesAI == openai_chat

\* lines 169-179: the calls made, the message put into params, what was raised
Compose(rid, v, ans) ==
    IF ~NeedsMessage(v)
    THEN [calls |-> <<>>, message |-> "", raised |-> "none"]
    ELSE IF UsesAI
    THEN [calls |-> <<Call("send_message", rid, v.id, "")>>,
          message |-> "ai_text",
          raised |-> IF ans.ai = "ok" THEN "none" ELSE ans.ai]
    ELSE [calls |-> <<Call("render", rid, ans.choice, "")>>,
          message |-> "rendered",
          raised |-> IF application_messages = <<>> THEN "IndexError"
                     ELSE IF application_messages[ans.choice] \subseteq placeholders
                     THEN "none"
                     ELSE "KeyError"]

\* line 181 without the test of dry_run
ShouldPost_Always(dry) == TRUE

\* line 181
ShouldPost(dry) == ~dry

\* the confirmation record written whether or not the post raised
PostAndConfirm_AlwaysConfirms(dry, rid, v, message, ans) ==
    [calls |-> IF dry THEN <<>> ELSE <<Call("post", rid, v.id, message)>>,
     logs |-> <<Log("info", "sent", rid, v.id)>>,
     raised |-> IF dry \/ ans.post = "ok" THEN "none" ELSE ans.post]

\* the confirmation record moved under `if not self.dry_run`
PostAndConfirm_SilentDryRun(dry, rid, v, message, ans) ==
    IF ~dry
    THEN [calls |-> <<Call("post", rid, v.id, message)>>,
          logs |-> IF ans.post = "ok"
                   THEN <<Log("info", "sent", rid, v.id)>> ELSE <<>>,
          raised |-> IF ans.post = "ok" THEN "none" ELSE ans.post]
    ELSE [calls |-> <<>>, logs |-> <<>>, raised |-> "none"]

\* lines 181-193: the post, unless dry_run, and the confirmation record that
\* follows when nothing was raised
PostAndConfirm(dry, rid, v, message, ans) ==
    IF ShouldPost(dry)
    THEN [calls |-> <<Call("post", rid, v.id, message)>>,
          logs |-> IF ans.post = "ok"
                   THEN <<Log("info", "sent", rid, v.id)>> ELSE <<>>,
          raised |-> IF ans.post = "ok" THEN "none" ELSE ans.post]
    ELSE [calls |-> <<>>, logs |-> <<Log("info", "sent", rid, v.id)>>,
          raised |-> "none"]

\* lines 163-193: params, message, post and the confirmation record
Submit(dry, rid, v, ans) ==
    LET c == Compose(rid, v, ans)
        p == PostAndConfirm(dry, rid, v, c.message, ans)
    IN  IF c.raised # "none"
        THEN [verdict |-> "eligible", calls |-> c.calls, logs |-> <<>>,
              raised |-> c.raised]
        ELSE [verdict |-> "eligible", calls |-> c.calls \o p.calls,
              logs |-> p.logs, raised |-> p.raised]

\* lines 144-161: the stage that rejects the vacancy, "eligible" if none does
FilterVerdict(v) ==
    IF SkipArchivedOrTest(v) THEN "archived_or_test"
    ELSE IF v.relations # <<>> THEN "relation"
    ELSE IF _is_excluded(v) THEN "excluded"
    ELSE "eligible"

\* lines 144-161: the log records of the stage that rejects the vacancy
FilterLogs(rid, v) ==
    CASE FilterVerdict(v) = "relation" -> RelationLogs(rid, v)
      [] FilterVerdict(v) = "excluded" ->
             <<Log("warning", "excluded", rid, v.id)>>
      [] OTHER -> <<>>

\* the loop body without lines 141-142
Drains_Never(active) == FALSE

\* lines 141-142: the iteration is skipped once do_apply is cleared
Drains(active) == ~active

\* lines 141-193: the try block
TryBlock(dry, active, rid, v, ans) ==
    IF Drains(active)
    THEN [verdict |-> "drained", calls |-> <<>>, logs |-> <<>>, raised |-> "none"]
    ELSE IF FilterVerdict(v) # "eligible"
    THEN [verdict |-> FilterVerdict(v), calls |-> <<>>,
          logs |-> FilterLogs(rid, v), raised |-> "none"]
    ELSE Submit(dry, rid, v, ans)

\* line 201 as a handler of the mapping error too
Caught_WithKeyError == {"ApiError", "BadResponse", "AIError", "KeyError"}

\* line 201 without AIError
Caught_WithoutAIError == {"ApiError", "BadResponse"}

\* line 201: the exceptions of the second except clause
Caught == {"ApiError", "BadResponse", "AIError"}

\* lines 195-202: the log records of the except clauses
ExceptLogs(raised, rid) ==
    IF raised = "LimitExceeded" THEN <<Log("warning", "limit", rid, 0)>>
    ELSE IF raised \in Caught THEN <<Log("error", raised, rid, 0)>>
    ELSE <<>>

\* the flag set once per run, not once per resume
InitialDoApply_OncePerRun == IF ri = 0 THEN TRUE ELSE do_apply

\* line 137
InitialDoApply == TRUE

\* the flag cleared by both except clauses
DoApplyAfter_AnyError(active, raised) ==
    IF raised # "none" THEN FALSE ELSE active

\* a handler of LimitExceeded that only logs
DoApplyAfter_NeverCleared(active, raised) == active

\* line 200: do_apply after the iteration
DoApplyAfter(active, raised) ==
    IF raised = "LimitExceeded" THEN FALSE ELSE active

\* one iteration of the loop, lines 140-202
Iteration(dry, active, rid, v, ans) ==
    LET t == TryBlock(dry, active, rid, v, ans)
    IN  [verdict |-> t.verdict,
         calls |-> t.calls,
         logs |-> t.logs \o ExceptLogs(t.raised, rid),
         raised |-> t.raised,
         do_apply |-> DoApplyAfter(active, t.raised),
         crashed |-> t.raised \notin (Caught \cup {"none", "LimitExceeded"})]

-----------------------------------------------------------------------------
(* The steps of a run *)

Observed(kind, rid, v, active, verdict, calls, logs, raised) ==
    [kind |-> kind, resume |-> rid, vacancy |-> v, active |-> active,
     verdict |-> verdict, calls |-> calls, logs |-> logs, raised |-> raised]

\* the twin at a step that sets the flag: it does what the run does
TwinSame(calls, logs, crashed) ==
    IF twin.pc # "on" THEN twin
    ELSE [pc |-> IF crashed THEN "crashed" ELSE "on", do_apply |-> TRUE,
          verdict |-> "none", calls |-> calls, logs |-> logs, raised |-> "none",
          live_failed |-> twin.live_failed]

\* the twin at a step that leaves the flag alone
TwinKeep(calls, logs, raised) ==
    IF twin.pc # "on" THEN twin
    ELSE [pc |-> IF raised = "none" THEN "on" ELSE "crashed",
          do_apply |-> twin.do_apply, verdict |-> "none", calls |-> calls,
          logs |-> logs, raised |-> raised, live_failed |-> twin.live_failed]

\* the twin's iteration on the vacancy the run handles, with dry_run set;
\* live_failed records that a post of the run itself has raised
TwinIteration(rid, v, ans, live) ==
    IF twin.pc # "on"
    THEN [twin EXCEPT !.live_failed =
              @ \/ (twin.pc # "off" /\ "post" \in Ops(live.calls)
                      /\ live.raised # "none")]
    ELSE LET r == Iteration(TRUE, twin.do_apply, rid, v, ans)
         IN  [pc |-> IF r.crashed THEN "crashed" ELSE "on",
              do_apply |-> r.do_apply, verdict |-> r.verdict,
              calls |-> r.calls, logs |-> r.logs, raised |-> r.raised,
              live_failed |-> twin.live_failed
                  \/ ("post" \in Ops(live.calls) /\ live.raised # "none")]

\* the status test of line 101 left out
Kept_AnyStatus(r) == resume_id = <<>> \/ r.id = resume_id[1]

\* lines 99-103: the resumes that are kept
Kept(r) ==
    /\ r.status = "published"
    /\ (resume_id = <<>> \/ r.id = resume_id[1])

FilterResumes(rs) == SelectSeq(rs, Kept)

\* the id of the resume being processed
Rid == resumes[ri].id

\* the id of the vacancy the generator yields next: its place in the stream
NextVacancyId == (page - 1) * PerPage + (PerPage - items) + 1

\* line 163 is reached for an active resume
Eligible(v) == FilterVerdict(v) = "eligible"

\* what the collaborators answer while one vacancy is handled: send_message,
\* random.choice (an index into the pool) and post.  A collaborator that is
\* not called for this vacancy has one answer.
AnswersFor(v) ==
    LET composing == Eligible(v) /\ NeedsMessage(v)
    IN  [ai : IF composing /\ UsesAI THEN {"ok", "AIError"} ELSE {"ok"},
         choice : IF composing /\ ~UsesAI /\ application_messages # <<>>
                  THEN 1..Len(application_messages) ELSE {0},
         post : IF Eligible(v)
                THEN {"ok", "LimitExceeded", "ApiError", "BadResponse"}
                ELSE {"ok"}]

\* get_me moved above the test of line 105
SelectCalls_ProfileFirst(kept) ==
    <<Call("get_resumes", 0, 0, ""), Call("get_me", 0, 0, "")>>

\* lines 98-109: get_resumes, and get_me when a resume is kept
SelectCalls(kept) ==
    IF kept = <<>>
    THEN <<Call("get_resumes", 0, 0, "")>>
    ELSE <<Call("get_resumes", 0, 0, ""), Call("get_me", 0, 0, "")>>

\* lines 105-107
SelectLogs(kept) ==
    IF kept = <<>> THEN <<Log("warning", "no_resumes", 0, 0)>> ELSE <<>>

\* _apply_similar up to the loop, lines 98-110
ApplySimilar ==
    /\ pc = "start"
    /\ resumes' = FilterResumes(all_resumes)
    /\ LET calls == SelectCalls(resumes')
           logs == SelectLogs(resumes')
       IN  /\ step' = Observed("select", 0, NoVacancy, FALSE, "none", calls, logs,
                               "none")
           /\ twin' = TwinSame(calls, logs, FALSE)
    /\ pc' = IF resumes' = <<>> THEN "done" ELSE "loop"
    /\ UNCHANGED <<cfgvars, ri, do_apply, vacancy, page, items, limited, fx>>

\* line 112 taking the next resume, and _apply_resume down to line 137
BeginResume ==
    /\ pc = "loop"
    /\ ri < Len(resumes)
    /\ ri' = ri + 1
    /\ do_apply' = InitialDoApply
    /\ page' = 0
    /\ items' = 0
    /\ pc' = "for"
    /\ LET logs == <<Log("info", "start", resumes[ri'].id, 0)>>
       IN  /\ step' = Observed("begin", resumes[ri'].id, NoVacancy, do_apply',
                               "none", <<>>, logs, "none")
           /\ twin' = TwinSame(<<>>, logs, FALSE)
    /\ UNCHANGED <<cfgvars, resumes, vacancy, limited, fx>>

\* line 139: the `for` statement asks the generator for its next item
ForNext ==
    /\ pc = "for"
    /\ pc' = "gen"
    /\ step' = Observed("next", Rid, NoVacancy, do_apply, "none", <<>>, <<>>,
                        "none")
    /\ twin' = TwinKeep(<<>>, <<>>, "none")
    /\ vacancy' = NoVacancy   \* dead until the generator yields again
    /\ UNCHANGED <<cfgvars, resumes, ri, do_apply, page, items, limited, fx>>

\* range(total_pages + 1)
HasNextPage_Inclusive == page <= total_pages

\* line 211: range(total_pages) has a next page
HasNextPage == page < total_pages

\* lines 211-215: the generator holds no item and range(total_pages) has a
\* next page: the get returns a page of n items
FetchPage ==
    /\ pc = "gen"
    /\ items = 0
    /\ HasNextPage
    /\ \E n \in 0..PerPage :
        /\ items' = n
        /\ page' = page + 1
        /\ LET calls == <<Call("get", Rid, page, "")>>
           IN  /\ step' = Observed("page", Rid, NoVacancy, do_apply, "none",
                                   calls, <<>>, "none")
               /\ twin' = TwinKeep(calls, <<>>, "none")
    /\ UNCHANGED <<cfgvars, pc, resumes, ri, do_apply, vacancy, limited, fx>>

\* the get of lines 212-215 raises: the exception leaves the generator inside
\* the `for` statement of line 139, which is outside the try block of line 140
FetchPageRaises ==
    /\ pc = "gen"
    /\ items = 0
    /\ HasNextPage
    /\ \E ex \in {"ApiError", "BadResponse"} :
        LET calls == <<Call("get", Rid, page, "")>>
        IN  /\ step' = Observed("page", Rid, NoVacancy, do_apply, "none",
                                calls, <<>>, ex)
            /\ twin' = TwinKeep(calls, <<>>, ex)
    /\ pc' = "crashed"
    /\ UNCHANGED <<cfgvars, resumes, ri, do_apply, vacancy, page, items, limited,
                   fx>>

\* line 216: the generator yields the next item of the page
Yield ==
    /\ pc = "gen"
    /\ items > 0
    /\ \E f \in VacancyFields : vacancy' = WithId(f, NextVacancyId)
    /\ items' = items - 1
    /\ pc' = "body"
    /\ step' = Observed("yield", Rid, vacancy', do_apply, "none", <<>>, <<>>,
                        "none")
    /\ twin' = TwinKeep(<<>>, <<>>, "none")
    /\ UNCHANGED <<cfgvars, resumes, ri, do_apply, page, limited, fx>>

\* lines 140-202: the loop body runs on the vacancy
ApplyVacancy ==
    /\ pc = "body"
    /\ \E ans \in AnswersFor(vacancy) :
        LET r == Iteration(dry_run, do_apply, Rid, vacancy, ans)
        IN  /\ do_apply' = r.do_apply
            /\ pc' = IF r.crashed THEN "crashed" ELSE "for"
            /\ limited' = IF r.raised = "LimitExceeded"
                          THEN limited \cup {Rid} ELSE limited
            /\ step' = Observed("vacancy", Rid, vacancy, do_apply, r.verdict,
                                r.calls, r.logs, r.raised)
            /\ twin' = TwinIteration(Rid, vacancy, ans, r)
    /\ UNCHANGED <<cfgvars, resumes, ri, vacancy, page, items, fx>>

\* the generator is exhausted: the loop ends, lines 204-208
EndResume ==
    /\ pc = "gen"
    /\ items = 0
    /\ ~HasNextPage
    /\ pc' = "loop"
    /\ LET logs == <<Log("info", "finish", Rid, 0)>>
       IN  /\ step' = Observed("end", Rid, NoVacancy, do_apply, "none", <<>>,
                               logs, "none")
           /\ twin' = TwinKeep(<<>>, logs, "none")
    /\ UNCHANGED <<cfgvars, resumes, ri, do_apply, vacancy, page, items, limited,
                   fx>>

\* the loop of line 112 is over: line 115
Finish ==
    /\ pc = "loop"
    /\ ri = Len(resumes)
    /\ pc' = "done"
    /\ LET logs == <<Log("info", "all_sent", 0, 0)>>
       IN  /\ step' = Observed("finish", 0, NoVacancy, do_apply, "none", <<>>,
                               logs, "none")
           /\ twin' = TwinKeep(<<>>, logs, "none")
    /\ UNCHANGED <<cfgvars, resumes, ri, do_apply, vacancy, page, items, limited,
                   fx>>

-----------------------------------------------------------------------------
(* The arguments of a run and the upstream's resumes *)

\* args.excluded_terms
ExcludedArgs == {<<>>, <<"A", ",", " ">>}

\* args.message_list_path: <<>> for no file, <<pool>> for a file's lines
MessagePaths == {<<>>} \cup {<<p>> : p \in FileMessages}

\* the answers of get_resumes: resume i has id i
ResumeLists ==
    UNION {{[i \in 1..n |-> [id |-> i, status |-> st[i]]]
                : st \in [1..n -> {"published", "draft"}]}
               : n \in 0..MaxResumes}

NoStep == Observed("init", 0, NoVacancy, FALSE, "none", <<>>, <<>>, "none")

TwinOff ==
    [pc |-> "off", do_apply |-> FALSE, verdict |-> "none", calls |-> <<>>,
     logs |-> <<>>, raised |-> "none", live_failed |-> FALSE]

TwinOn == [TwinOff EXCEPT !.pc = "on"]

NoFx ==
    [arg |-> <<>>, applied |-> FALSE, vacancy |-> NoVacancy, out |-> FALSE,
     verdict |-> "none"]

\* run(), lines 74-93, and the state before _apply_similar is called
InitRun ==
    /\ dry_run \in BOOLEAN
    /\ force_message \in BOOLEAN
    /\ total_pages \in 0..MaxPages
    /\ \E arg \in ExcludedArgs : excluded_terms = _parse_excluded_terms(arg)
    /\ resume_id \in {<<>>} \cup {<<i>> : i \in 1..MaxResumes}
    /\ \E use_ai \in BOOLEAN, path \in MessagePaths :
           /\ openai_chat = use_ai
           /\ application_messages = _get_application_messages(path)
           /\ use_ai => path = <<>>
    /\ all_resumes \in ResumeLists
    /\ pc = "start"
    /\ resumes = <<>>
    /\ ri = 0
    /\ do_apply = FALSE
    /\ vacancy = NoVacancy
    /\ page = 0
    /\ items = 0
    /\ step = NoStep
    /\ limited = {}
    /\ fx = NoFx

Init == InitRun /\ twin = TwinOff

Next ==
    \/ ApplySimilar
    \/ BeginResume
    \/ ForNext
    \/ FetchPage
    \/ FetchPageRaises
    \/ Yield
    \/ ApplyVacancy
    \/ EndResume
    \/ Finish

Spec == Init /\ [][Next]_vars

-----------------------------------------------------------------------------
(* A live run and a dry run on the same resumes, vacancies and answers *)

InitPair == InitRun /\ dry_run = FALSE /\ twin = TwinOn

SpecPair == InitPair /\ [][Next]_vars

-----------------------------------------------------------------------------
(* The keyword stage on its own: _parse_excluded_terms on an argument string, *)
(* then _is_excluded and the filter on one vacancy                            *)

\* the excluded-terms argument is at most this long
MaxArg == 3

ArgChars == {"a", "A", "b", ",", " "}
TextChars == {"a", "A", "b", " "}

TextVacancies ==
    [id : {1},
     name : StringsUpTo(TextChars, MaxLen),
     requirement : StringsUpTo(TextChars, 1),
     responsibility : {<<>>, <<"b">>},
     archived : BOOLEAN, has_test : {FALSE},
     relations : {<<>>},
     response_letter_required : {FALSE}]

InitText ==
    /\ dry_run = FALSE
    /\ force_message = FALSE
    /\ openai_chat = FALSE
    /\ total_pages = 0
    /\ resume_id = <<>>
    /\ application_messages = DefaultMessages
    /\ all_resumes = <<>>
    /\ pc = "text"
    /\ resumes = <<>>
    /\ ri = 0
    /\ do_apply = FALSE
    /\ vacancy = NoVacancy
    /\ page = 0
    /\ items = 0
    /\ step = NoStep
    /\ limited = {}
    /\ twin = TwinOff
    /\ \E arg \in StringsUpTo(ArgChars, MaxArg) :
        /\ excluded_terms = _parse_excluded_terms(arg)
        /\ fx = [NoFx EXCEPT !.arg = arg]

\* the filter applied to one vacancy
CheckExcluded ==
    /\ pc = "text"
    /\ ~fx.applied
    /\ \E v \in TextVacancies :
        fx' = [arg |-> fx.arg, applied |-> TRUE, vacancy |-> v,
               out |-> _is_excluded(v), verdict |-> FilterVerdict(v)]
    /\ UNCHANGED <<cfgvars, ctlvars, step, limited, twin>>

NextText == CheckExcluded

SpecText == InitText /\ [][NextText]_vars

-----------------------------------------------------------------------------
(* run() up to line 93: _parse_excluded_terms on longer argument strings *)

MaxParseArg == 4

\* run() before line 93: args.excluded_terms is given, nothing is parsed yet
InitParse ==
    /\ dry_run = FALSE
    /\ force_message = FALSE
    /\ openai_chat = FALSE
    /\ total_pages = 0
    /\ resume_id = <<>>
    /\ application_messages = DefaultMessages
    /\ all_resumes = <<>>
    /\ pc = "parse"
    /\ resumes = <<>>
    /\ ri = 0
    /\ do_apply = FALSE
    /\ vacancy = NoVacancy
    /\ page = 0
    /\ items = 0
    /\ step = NoStep
    /\ limited = {}
    /\ twin = TwinOff
    /\ excluded_terms = <<>>
    /\ \E arg \in StringsUpTo(ArgChars, MaxParseArg) :
        fx = [NoFx EXCEPT !.arg = arg]

\* line 93
ParseExcludedTerms ==
    /\ pc = "parse"
    /\ excluded_terms' = _parse_excluded_terms(fx.arg)
    /\ pc' = "parsed"
    /\ UNCHANGED <<dry_run, force_message, openai_chat, total_pages, resume_id,
                   application_messages, all_resumes, resumes, ri, do_apply,
                   vacancy, page, items, step, limited, twin, fx>>

NextParse == ParseExcludedTerms

SpecParse == InitParse /\ [][NextParse]_vars

-----------------------------------------------------------------------------
(* Properties *)

PostCalls == {i \in 1..Len(step.calls) : step.calls[i].op = "post"}

ComposeCalls ==
    {i \in 1..Len(step.calls) : step.calls[i].op \in {"send_message", "render"}}

Warnings == {i \in 1..Len(step.logs) : step.logs[i].level = "warning"}

\* term occurs in text when letter case is ignored
OccursIgnoringCase(text, term) ==
    \E i \in 0..Len(text) :
        /\ i + Len(term) <= Len(text)
        /\ \A k \in 1..Len(term) : LowerChar(text[i + k]) = LowerChar(term[k])

\* the three text fields joined by single spaces
SpacedText(v) == JoinSpace3(v.name, v.requirement, v.responsibility)

\* the three text fields one after the other
PlainText(v) == v.name \o v.requirement \o v.responsibility

MentionsExcludedTerm(text) ==
    \E n \in 1..Len(excluded_terms) : OccursIgnoringCase(text, excluded_terms[n])

(* C1: once LimitExceeded has been raised by a post for a resume, no later  *)
(* step of the run makes a post for that resume.                            *)
C1_RateLimitContainment ==
    [][\A i \in 1..Len(step'.calls) :
          step'.calls[i].op = "post" => step'.calls[i].resume \notin limited]_vars

\* an eligible vacancy arrives after the rate limit of its resume and is drained
C1_Witness ==
    /\ step.kind = "vacancy"
    /\ step.resume \in limited
    /\ ~step.active
    /\ Eligible(step.vacancy)
    /\ step.verdict = "drained"
    /\ PostCalls = {}

(* C2: every resume starts with do_apply set and its generator at page 0,    *)
(* whatever happened to the resumes before it; so in a live run an eligible  *)
(* vacancy of a resume that has not itself been rate-limited is posted       *)
(* (unless composing its message raised), also when an earlier resume was    *)
(* rate-limited.                                                             *)
C2_RateLimitIsPerResume ==
    /\ step.kind = "begin" => (do_apply /\ page = 0 /\ items = 0)
    /\ ( /\ step.kind = "vacancy"
         /\ ~dry_run
         /\ step.resume \notin limited
         /\ Eligible(step.vacancy)
         /\ step.raised \notin {"AIError", "KeyError", "IndexError"} )
       => PostCalls # {}

\* a later resume posts after an earlier one was rate-limited
C2_Witness ==
    /\ step.kind = "vacancy"
    /\ limited # {}
    /\ step.resume \notin limited
    /\ PostCalls # {}

(* C3: every post is for the vacancy in hand, and that vacancy is not        *)
(* archived, has no test, has no relation, and no excluded term occurs in    *)
(* its text.                                                                 *)
C3_OnlyFilteredVacanciesPosted ==
    \A i \in PostCalls :
        /\ step.kind = "vacancy"
        /\ step.calls[i].arg = step.vacancy.id
        /\ step.calls[i].resume = step.resume
        /\ ~step.vacancy.archived
        /\ ~step.vacancy.has_test
        /\ step.vacancy.relations = <<>>
        /\ ~MentionsExcludedTerm(SpacedText(step.vacancy))

\* a vacancy is posted while terms are excluded
C3_Witness ==
    /\ PostCalls # {}
    /\ excluded_terms # <<>>
    /\ step.vacancy.response_letter_required

(* C4: with dry_run set no step of the run makes a post.                     *)
C4_DryRunNeverPosts == dry_run => PostCalls = {}

\* a dry run takes an eligible vacancy through to the confirmation record
C4_Witness ==
    /\ dry_run
    /\ step.kind = "vacancy"
    /\ step.verdict = "eligible"
    /\ step.logs = <<Log("info", "sent", step.resume, step.vacancy.id)>>

NotPost(c) == c.op # "post"

\* the dry twin did in this step what the run did, the posts aside
SameAsTwin ==
    /\ twin.verdict = step.verdict
    /\ twin.calls = SelectSeq(step.calls, NotPost)
    /\ twin.logs = step.logs
    /\ (twin.pc = "crashed") = (pc = "crashed")

(* C5 as stated: in every step a dry run and a live run on the same inputs   *)
(* give the same filter verdict, the same composition calls and the same log *)
(* records.                                                                  *)
C5_DryRunSameAsLive == twin.pc # "off" => SameAsTwin

(* C5 amended: the same, as long as no post of the live run has raised.      *)
C5_DryRunSameAsLiveUntilPostRaises ==
    (twin.pc # "off" /\ ~twin.live_failed) => SameAsTwin

\* both runs compose a message and log the confirmation, the live one posts
C5_Witness ==
    /\ twin.pc = "on"
    /\ ~twin.live_failed
    /\ step.kind = "vacancy"
    /\ PostCalls # {}
    /\ ComposeCalls # {}
    /\ twin.calls # <<>>
    /\ twin.logs = <<Log("info", "sent", step.resume, step.vacancy.id)>>

(* C6: an ApiError or BadResponse raised by a collaborator call while a      *)
(* resume is processed never aborts the run.                                 *)
C6_ApiErrorsNeverAbort ==
    ~(pc = "crashed" /\ step.raised \in {"ApiError", "BadResponse"})

(* C7: when send_message raises AIError for a vacancy, no post is made for   *)
(* it, one error record is logged, the run goes on and do_apply stays set.   *)
C7_AIErrorSkipsVacancy ==
    (step.kind = "vacancy" /\ step.raised = "AIError") =>
        /\ PostCalls = {}
        /\ step.logs = <<Log("error", "AIError", step.resume, 0)>>
        /\ pc = "for"
        /\ step.active
        /\ do_apply

\* send_message has raised AIError for a vacancy
C7_Witness ==
    /\ step.kind = "vacancy"
    /\ step.raised = "AIError"
    /\ openai_chat
    /\ Ops(step.calls) = {"send_message"}

\* the vacancy passed the archived/test stage and the relation stage
ReachesKeywordStage(v) == ~v.archived /\ ~v.has_test /\ v.relations = <<>>

(* C8 as stated: a vacancy that reaches the keyword stage is rejected there  *)
(* iff some excluded term occurs, case ignored, in name + requirement +      *)
(* responsibility.                                                           *)
C8_ExcludedIffTermInPlainText ==
    (fx.applied /\ ReachesKeywordStage(fx.vacancy)) =>
        ((fx.verdict = "excluded") = MentionsExcludedTerm(PlainText(fx.vacancy)))

(* C8 amended: a vacancy that reaches the keyword stage is rejected there    *)
(* iff some excluded term occurs, case ignored, in the three fields joined   *)
(* by single spaces; no vacancy is rejected there when no term is excluded,  *)
(* and none that does not reach the stage.                                   *)
C8_ExcludedIffTermInSpacedText ==
    fx.applied =>
        /\ (fx.verdict = "excluded") =
               ( /\ ReachesKeywordStage(fx.vacancy)
                 /\ MentionsExcludedTerm(SpacedText(fx.vacancy)) )
        /\ excluded_terms = <<>> => fx.verdict # "excluded"
        /\ fx.out = MentionsExcludedTerm(SpacedText(fx.vacancy))

\* a name in capitals is rejected for a term given in another case
C8_Witness ==
    /\ fx.applied
    /\ fx.verdict = "excluded"
    /\ fx.vacancy.name = <<"A">>
    /\ fx.vacancy.requirement = <<>>
    /\ fx.vacancy.responsibility = <<>>
    /\ fx.arg = <<"A">>

(* C9 as stated: a delivered vacancy with a non-empty relation list is not   *)
(* posted, and logs exactly one warning when the list holds got_rejection,   *)
(* none otherwise.                                                           *)
C9_RelationRejectsAndWarns ==
    (step.kind = "vacancy" /\ step.vacancy.relations # <<>>) =>
        /\ PostCalls = {}
        /\ IF "got_rejection" \in Range(step.vacancy.relations)
           THEN Cardinality(Warnings) = 1 /\ Len(step.logs) = 1
           ELSE step.logs = <<>>

(* C9 amended: a delivered vacancy with a non-empty relation list is not     *)
(* posted; when it reaches the relation stage (do_apply set, not archived,   *)
(* no test) it logs exactly one warning if the list holds got_rejection and  *)
(* nothing otherwise; when it does not reach the stage it logs nothing.      *)
C9_RelationRejectsAndWarnsAtItsStage ==
    (step.kind = "vacancy" /\ step.vacancy.relations # <<>>) =>
        /\ PostCalls = {}
        /\ IF /\ step.active
              /\ ~step.vacancy.archived
              /\ ~step.vacancy.has_test
              /\ "got_rejection" \in Range(step.vacancy.relations)
           THEN step.logs = <<Log("warning", "got_rejection", step.resume,
                                  step.vacancy.id)>>
           ELSE step.logs = <<>>

\* a rejection further down the relation list is warned about
C9_Witness ==
    /\ step.kind = "vacancy"
    /\ step.active
    /\ step.verdict = "relation"
    /\ step.vacancy.relations = <<"other", "got_rejection">>
    /\ Len(step.logs) = 1

(* C10: for a vacancy that reaches line 163, a message is composed (one      *)
(* send_message or one render) iff force_message is set or the vacancy has   *)
(* response_letter_required; otherwise nothing is composed and the post      *)
(* carries the empty message.  With the chat present only send_message is    *)
(* used, without it only render; a vacancy that does not reach line 163      *)
(* composes nothing.                                                         *)
C10_MessageOnlyWhenNeeded ==
    step.kind = "vacancy" =>
        /\ step.verdict # "eligible" => ComposeCalls = {}
        /\ step.verdict = "eligible" =>
            /\ (ComposeCalls # {}) =
                   (force_message \/ step.vacancy.response_letter_required)
            /\ Cardinality(ComposeCalls) <= 1
            /\ \A i \in PostCalls :
                   (step.calls[i].message = "") = (ComposeCalls = {})
            /\ \A i \in ComposeCalls :
                   step.calls[i].op =
                       (IF openai_chat THEN "send_message" ELSE "render")

\* scenario D: nothing forced, nothing required, the empty message is posted
C10_Witness ==
    /\ step.kind = "vacancy"
    /\ ~force_message
    /\ ~openai_chat
    /\ ~step.vacancy.response_letter_required
    /\ step.calls = <<Call("post", step.resume, step.vacancy.id, "")>>

(* C11: when no resume is kept, the run makes the get_resumes call and no    *)
(* other collaborator call, logs one warning and ends without an exception. *)
C11_NoResumesEndsQuietly ==
    (pc # "start" /\ resumes = <<>>) =>
        /\ pc = "done"
        /\ step.kind = "select"
        /\ step.calls = <<Call("get_resumes", 0, 0, "")>>
        /\ step.logs = <<Log("warning", "no_resumes", 0, 0)>>
        /\ step.raised = "none"
        /\ ~ENABLED Next

\* resumes were fetched, none of them is published and chosen
C11_Witness ==
    /\ pc = "done"
    /\ resumes = <<>>
    /\ all_resumes # <<>>
    /\ step.kind = "select"

\* places, in the fetched list, of the published resumes the run is asked for
Chosen ==
    {i \in 1..Len(all_resumes) :
        /\ all_resumes[i].status = "published"
        /\ (resume_id = <<>> \/ all_resumes[i].id = resume_id[1])}

NthChosen(k) == CHOOSE i \in Chosen : Cardinality({j \in Chosen : j < i}) = k - 1

\* calls and log records that carry the id of a resume
ResumeCalls == {i \in 1..Len(step.calls) : step.calls[i].resume # 0}

ResumeLogs == {i \in 1..Len(step.logs) : step.logs[i].resume # 0}

(* C12: the resumes processed are the published ones (with the requested    *)
(* id, when one is given), each once and in the order of the fetched list;  *)
(* no call and no log record carries the id of another resume.              *)
C12_OnlyKeptResumesInListOrder ==
    /\ [](pc # "start" =>
            /\ Len(resumes) = Cardinality(Chosen)
            /\ \A k \in 1..Len(resumes) : resumes[k] = all_resumes[NthChosen(k)])
    /\ [](\A i \in ResumeCalls :
            /\ ri \in 1..Len(resumes)
            /\ step.calls[i].resume = resumes[ri].id
            /\ \E j \in Chosen : all_resumes[j].id = step.calls[i].resume)
    /\ [](\A i \in ResumeLogs :
            /\ ri \in 1..Len(resumes)
            /\ step.logs[i].resume = resumes[ri].id)
    /\ [][ri' # ri =>
            /\ ri' = ri + 1
            /\ ri' <= Len(resumes)
            /\ step'.logs = <<Log("info", "start", resumes[ri'].id, 0)>>]_vars
    /\ [](step.kind = "finish" => ri = Len(resumes))

\* the second of two kept resumes posts, the fetched list holding a draft too
C12_Witness ==
    /\ Len(resumes) < Len(all_resumes)
    /\ resumes # <<>>
    /\ ri = Len(resumes)
    /\ PostCalls # {}

\* the render calls of the step whose template names a key the dict of
\* lines 129-135 does not hold
UnresolvedRenders ==
    {i \in 1..Len(step.calls) :
        /\ step.calls[i].op = "render"
        /\ application_messages # <<>>
        /\ ~(application_messages[step.calls[i].arg] \subseteq placeholders)}

(* C13: rendering a template that references a placeholder outside          *)
(* first_name, last_name, email, phone, resume_title raises an error the    *)
(* handlers of the loop body do not absorb: the run stops there, nothing is *)
(* logged for the vacancy and no submission is made with that template.     *)
C13_MissingPlaceholderStopsRun ==
    UnresolvedRenders # {} =>
        /\ step.raised = "KeyError"
        /\ pc = "crashed"
        /\ ~ENABLED Next
        /\ PostCalls = {}
        /\ step.logs = <<>>

\* a live run picks the template that names "company" for an eligible vacancy
C13_Witness ==
    /\ UnresolvedRenders # {}
    /\ ~dry_run
    /\ step.verdict = "eligible"
    /\ application_messages # DefaultMessages

(* C14: for one resume the page requests carry the indices 0, 1, ... in     *)
(* increasing order, one request per index and none at total_pages or       *)
(* above; a page is requested only when every vacancy of the page before    *)
(* has gone through the loop body; a request that raises is not repeated;   *)
(* a resume that completes has had all total_pages pages requested.         *)
C14_PagesInOrderLazilyOnce ==
    /\ [][LET gets == {i \in 1..Len(step'.calls) : step'.calls[i].op = "get"}
          IN  /\ gets # {} =>
                    /\ pc = "gen"
                    /\ items = 0
                    /\ page < total_pages
                    /\ step'.calls = <<Call("get", resumes[ri].id, page, "")>>
                    /\ \/ step'.raised = "none" /\ page' = page + 1
                       \/ step'.raised # "none" /\ pc' = "crashed"
              /\ page' # page =>
                    \/ gets # {} /\ page' = page + 1
                    \/ step'.kind = "begin" /\ page' = 0]_vars
    /\ [](pc = "crashed" => ~ENABLED Next)
    /\ [](step.kind = "end" => page = total_pages)

\* the second page is asked for after a vacancy of the first went through the
\* loop body, where its submission was refused
C14_Witness ==
    /\ step.kind = "page"
    /\ step.calls = <<Call("get", resumes[ri].id, 1, "")>>
    /\ resumes[ri].id \in limited
    /\ page = 2

\* the step renders a template of the pool
RenderCalls == {i \in 1..Len(step.calls) : step.calls[i].op = "render"}

(* C15: with the built-in pool and the template strategy, the rendering     *)
(* succeeds for an eligible vacancy that needs a message, and a live run    *)
(* then submits it with a non-empty message.                                *)
C15_DefaultPoolRenders ==
    (application_messages = DefaultMessages /\ RenderCalls # {}) =>
        /\ step.raised \notin {"KeyError", "IndexError"}
        /\ pc # "crashed"
        /\ ~dry_run => \E i \in PostCalls : step.calls[i].message # ""

(* C16: while a resume is processed, do_apply goes from set to cleared only  *)
(* in an iteration whose submission call raised LimitExceeded; a rejection  *)
(* by a filter, a successful submission, an ApiError or BadResponse of the  *)
(* submission and an AIError leave it set; once cleared it stays cleared    *)
(* until the next resume begins.                                            *)
C16_OnlyLimitExceededLeavesActive ==
    [][step'.kind # "begin" =>
          /\ ~do_apply => ~do_apply'
          /\ (do_apply /\ ~do_apply') <=>
                /\ step'.kind = "vacancy"
                /\ step'.active
                /\ step'.raised = "LimitExceeded"
                /\ \E i \in 1..Len(step'.calls) : step'.calls[i].op = "post"]_vars

\* the submission of the step raised LimitExceeded and cleared the flag
C16_Witness ==
    /\ step.kind = "vacancy"
    /\ step.active
    /\ step.raised = "LimitExceeded"
    /\ PostCalls # {}
    /\ ~do_apply

\* the run has ended: by returning, or by an exception nothing caught
Ended == pc \in {"done", "crashed"}

(* C17: provided every page request returns and no template lacks a         *)
(* placeholder, the run goes on until it returns: it ends by no exception,  *)
(* and it ends with the final banner after the last kept resume.            *)
C17_RunCompletesGivenPagesAndPlaceholders ==
    /\ ~Ended => ENABLED Next
    /\ pc = "crashed" =>
          \/ step.kind = "page" /\ step.raised \in {"ApiError", "BadResponse"}
          \/ UnresolvedRenders # {}
    /\ (pc = "done" /\ resumes # <<>>) =>
          /\ ri = Len(resumes)
          /\ step.logs = <<Log("info", "all_sent", 0, 0)>>

\* the steps one resume can take: one get per page and three steps per
\* vacancy, then the steps that begin and end it
ResumeSteps == total_pages * (1 + 3 * PerPage) + 3

\* the steps the resume being processed has left at most
StepsLeftInResume ==
    CASE pc = "loop" -> 0
      [] pc = "gen" -> (total_pages - page) * (1 + 3 * PerPage) + 3 * items + 1
      [] pc = "for" -> (total_pages - page) * (1 + 3 * PerPage) + 3 * items + 2
      [] pc = "body" -> (total_pages - page) * (1 + 3 * PerPage) + 3 * items + 3
      [] OTHER -> 0

\* the steps the run has left at most
StepsLeft ==
    IF Ended THEN 0
    ELSE IF pc = "start" THEN 2 + Len(all_resumes) * (ResumeSteps + 1)
    ELSE 1 + (Len(resumes) - ri) * (ResumeSteps + 1) + StepsLeftInResume

(* C17, the part of it the code keeps: every step brings the run nearer to  *)
(* its end, the run stops early only by an exception of a page request or   *)
(* of the rendering (unknown placeholder, empty pool); a resume gets its    *)
(* start banner when the one before has had its completion banner, in list  *)
(* order, and the final banner follows the completion banner of the last.   *)
RunEndsAndBannersAlternate ==
    /\ [][StepsLeft' < StepsLeft]_vars
    /\ [](~Ended => ENABLED Next)
    /\ [](pc = "crashed" =>
            \/ step.kind = "page" /\ step.raised \in {"ApiError", "BadResponse"}
            \/ step.kind = "vacancy" /\ step.raised \in {"KeyError", "IndexError"})
    /\ [][LET banners == {step'.logs[i].event : i \in 1..Len(step'.logs)}
          IN  /\ "start" \in banners =>
                    /\ pc = "loop"
                    /\ ri' = ri + 1
                    /\ step'.logs = <<Log("info", "start", resumes[ri'].id, 0)>>
              /\ "finish" \in banners =>
                    /\ pc = "gen" /\ pc' = "loop" /\ ri' = ri
                    /\ step'.logs = <<Log("info", "finish", resumes[ri].id, 0)>>
              /\ (pc' = "loop" /\ pc # "start") => "finish" \in banners
              /\ "all_sent" \in banners =>
                    /\ pc = "loop" /\ pc' = "done" /\ ri = Len(resumes)
                    /\ step.logs = <<Log("info", "finish", resumes[ri].id, 0)>>]_vars
    /\ []((pc = "done" /\ resumes # <<>>) =>
            step.logs = <<Log("info", "all_sent", 0, 0)>>)

\* the confirmation records of the step
Confirmations == {i \in 1..Len(step.logs) : step.logs[i].event = "sent"}

(* C18: in a live run the confirmation record of a resume and a vacancy is  *)
(* written exactly when the submission call for that pair returned; a       *)
(* vacancy that was filtered out, drained, or whose composition or          *)
(* submission raised gets none; a submission that raised leaves exactly one *)
(* record: a warning for LimitExceeded, an error record otherwise.          *)
C18_ConfirmationIffPostReturned ==
    ~dry_run =>
        /\ step.kind # "vacancy" => Confirmations = {}
        /\ step.kind = "vacancy" =>
              /\ Confirmations # {} <=> (PostCalls # {} /\ step.raised = "none")
              /\ Confirmations # {} =>
                    /\ step.logs = <<Log("info", "sent", step.resume,
                                         step.vacancy.id)>>
                    /\ \A i \in PostCalls :
                          /\ step.calls[i].resume = step.resume
                          /\ step.calls[i].arg = step.vacancy.id
              /\ step.verdict # "eligible" => Confirmations = {}
              /\ step.raised # "none" => Confirmations = {}
              /\ (PostCalls # {} /\ step.raised = "LimitExceeded") =>
                    step.logs = <<Log("warning", "limit", step.resume, 0)>>
              /\ (PostCalls # {} /\ step.raised \in {"ApiError", "BadResponse"}) =>
                    step.logs = <<Log("error", step.raised, step.resume, 0)>>
              /\ Cardinality(PostCalls) <= 1

\* a live submission raised BadResponse and left its error record
C18_Witness ==
    /\ ~dry_run
    /\ PostCalls # {}
    /\ step.raised = "BadResponse"
    /\ Len(step.logs) = 1

(* C19: once do_apply is cleared for a resume, the vacancies left in its     *)
(* stream go through the loop with no filter warning, no composition, no    *)
(* submission and no log record; the pages left are still requested, up to  *)
(* total_pages; the only log record still written for the resume is its     *)
(* completion banner.                                                       *)
C19_DrainHasNoSideEffects ==
    /\ [](ri \in 1..Len(resumes) /\ resumes[ri].id \in limited /\ pc # "loop"
            => ~do_apply)
    /\ []((step.kind \in {"next", "page", "yield", "vacancy", "end"}
             /\ ~step.active) =>
            /\ step.resume \in limited
            /\ step.kind = "vacancy" =>
                  /\ step.verdict = "drained"
                  /\ step.calls = <<>>
                  /\ step.logs = <<>>
                  /\ step.raised = "none"
            /\ step.calls # <<>> =>
                  /\ step.kind = "page"
                  /\ Len(step.calls) = 1
                  /\ step.calls[1].op = "get"
                  /\ step.calls[1].arg < total_pages
            /\ step.logs # <<>> =>
                  /\ step.kind = "end"
                  /\ step.logs = <<Log("info", "finish", step.resume, 0)>>
                  /\ page = total_pages)
    /\ [][(~do_apply /\ pc \in {"for", "gen", "body"}) =>
            /\ step'.kind \in {"next", "page", "yield", "vacancy", "end"}
            /\ ~step'.active]_vars
    /\ []((~do_apply /\ pc = "gen" /\ items = 0 /\ page < total_pages) =>
            ENABLED FetchPage)

\* a page is requested for a resume whose submissions were refused, and a
\* vacancy of it is skipped
C19_Witness ==
    /\ step.kind = "vacancy"
    /\ step.verdict = "drained"
    /\ step.resume \in limited
    /\ page = 2
    /\ Eligible(step.vacancy)
    /\ NeedsMessage(step.vacancy)

\* the places that bound the pieces of s: before it, its commas, after it
Cuts(s) == {0, Len(s) + 1} \cup {i \in 1..Len(s) : s[i] = ","}

\* the cut that ends the piece beginning after the cut b
PieceEnd(s, b) == CHOOSE e \in Cuts(s) : e > b /\ \A c \in Cuts(s) : c > b => e <= c

\* the places of the piece after the cut b that hold no whitespace
Inked(s, b) == {k \in (b + 1)..(PieceEnd(s, b) - 1) : s[k] # " "}

\* the cuts followed by a piece that is not blank
InkedPieces(s) == {b \in Cuts(s) \ {Len(s) + 1} : Inked(s, b) # {}}

NthInkedPiece(s, n) ==
    CHOOSE b \in InkedPieces(s) :
        Cardinality({c \in InkedPieces(s) : c < b}) = n - 1

\* the piece after the cut b, from its first inked place to its last, lowered
TrimmedLowered(s, b) ==
    LET first == CHOOSE k \in Inked(s, b) : \A j \in Inked(s, b) : k <= j
        last == CHOOSE k \in Inked(s, b) : \A j \in Inked(s, b) : j <= k
    IN  [j \in 1..(last - first + 1) |-> LowerChar(s[first + j - 1])]

\* s is made of commas and whitespace only (the empty string included)
Blank(s) == \A i \in 1..Len(s) : s[i] \in {",", " "}

(* C20: _parse_excluded_terms yields no empty term: the terms are, in       *)
(* order, the pieces between the commas of the argument that are not blank, *)
(* each trimmed and lower-cased; an absent or empty argument, or one made   *)
(* of commas and whitespace only, yields no term and rejects no vacancy,    *)
(* and no argument yields terms that reject every vacancy.                  *)
C20_ParsedTermsAreNeverEmpty ==
    pc = "parsed" =>
        /\ \A i \in 1..Len(excluded_terms) :
              LET t == excluded_terms[i]
              IN  /\ t # <<>>
                  /\ t[1] # " " /\ t[Len(t)] # " "
                  /\ \A k \in 1..Len(t) : t[k] # "," /\ t[k] = LowerChar(t[k])
                  /\ t = TrimmedLowered(fx.arg, NthInkedPiece(fx.arg, i))
        /\ Len(excluded_terms) = Cardinality(InkedPieces(fx.arg))
        /\ Blank(fx.arg) =>
              /\ excluded_terms = <<>>
              /\ \A v \in TextVacancies : ~_is_excluded(v)
        /\ \E v \in TextVacancies : ~_is_excluded(v)

\* an argument of the shape "test,,intern": two terms, the empty piece dropped
C20_Witness ==
    /\ pc = "parsed"
    /\ fx.arg = <<"A", ",", ",", "b">>
    /\ excluded_terms = << <<"a">>, <<"b">> >>

\* an argument of the shape " , ": no term
C20_WitnessBlank ==
    /\ pc = "parsed"
    /\ fx.arg = <<" ", ",", " ">>
    /\ excluded_terms = <<>>

====
